---- MODULE Spec2Model ----
(***************************************************************************)
(* Model of SolarSystem::SolarMathCore (src/SolarCore/solarmathcore.cpp):  *)
(* the simulation clock, the burst multiplier, the scale state, the orbit  *)
(* solver's writes to the math records and to the scene's planets table,   *)
(* the ring / cloud propagation and the zoom-limit calculation.            *)
(*                                                                         *)
(* Numbers.  float / double quantities that the code divides are exact     *)
(* rationals <<n, d>> (d > 0, lowest terms); IEEE rounding is not          *)
(* modelled.  Quantities the code only copies or compares are integers.    *)
(* Null pointers.  A dereference of a null pointer is recorded in `fault`  *)
(* (the name of the function that dereferenced it) and ends the run.       *)
(***************************************************************************)
EXTENDS Integers, Sequences, FiniteSets, TLC

VARIABLES
    \* SimulationClock (struct Data, lines 20-47)
    solarTime,          \* QDateTime: [date |-> <<y, m, d>>, ms |-> ms of the day]
    deltaTime,          \* frame dt in seconds (rational)
    startD,             \* elapsed-days at construction
    oldTimeD, currentTimeD, deltaTimeD,
    daysPerFrame, daysPerFrameScale,
    ultraSpeed,
    \* ScaleState
    planetScale, actualScale, focusedScaling,
    \* ring radii
    saturnRingInnerRadius, saturnRingOuterRadius,
    uranusRingInnerRadius, uranusRingOuterRadius,
    \* collaborators
    camera,             \* [viewCenter |-> <<x, y, z>>]
    cameraController,   \* NULL or [zoomLimit |-> rational, zoomSpeed |-> rational]
    solarContainer,     \* math records: [MathBodies -> [x, y, z, roll]]
    planets,            \* container->planets(): map BodyId -> NULL or VisualBody
    \* observation of the run
    fault,              \* "none", or the function that dereferenced a null pointer
    lastOp,             \* the last operation and its arguments
    burstCalls,         \* changeExtraSpeed calls since the multiplier was last reset
    frames,             \* advanceTime calls so far
    solves,             \* orbit-solver calls so far
    solveOrder          \* the ids handed to solarObjectPosition by the last solveAll

vars == <<solarTime, deltaTime, startD, oldTimeD, currentTimeD, deltaTimeD,
          daysPerFrame, daysPerFrameScale, ultraSpeed,
          planetScale, actualScale, focusedScaling,
          saturnRingInnerRadius, saturnRingOuterRadius,
          uranusRingInnerRadius, uranusRingOuterRadius,
          camera, cameraController, solarContainer, planets,
          fault, lastOp, burstCalls, frames, solves, solveOrder>>

clockVars == <<solarTime, deltaTime, oldTimeD, currentTimeD, deltaTimeD,
               daysPerFrame, daysPerFrameScale>>
scaleVars == <<planetScale, actualScale>>
ringVars == <<saturnRingInnerRadius, saturnRingOuterRadius,
              uranusRingInnerRadius, uranusRingOuterRadius>>

NULL == [isNull |-> TRUE]

(***************************************************************************)
(* Bounds of the model.                                                    *)
(***************************************************************************)
MaxFrames == 2          \* advanceTime calls in a run of the clock
MaxTicks == 1           \* advanceTime calls in a run of the frame loop
MaxBurstCalls == 8      \* changeExtraSpeed calls between two resets
MaxSolves == 2          \* orbit-solver calls (solveAll or a single solve) in a run
MaxRingRadius == 4000   \* applyScale is not called again once a ring radius passes it

(***************************************************************************)
(* Exact rational arithmetic for the code's float / double expressions.    *)
(***************************************************************************)
Abs(n) == IF n < 0 THEN -n ELSE n

RECURSIVE GCD(_, _)
GCD(a, b) == IF b = 0 THEN a ELSE GCD(b, a % b)

\* n / d in lowest terms with a positive denominator (d # 0)
Rat(n, d) ==
    LET g == GCD(Abs(n), Abs(d))
        s == IF d < 0 THEN -1 ELSE 1
    IN  <<(s * n) \div g, (s * d) \div g>>

R(n) == <<n, 1>>

RNeg(a) == <<-a[1], a[2]>>

\* a * b, cancelling across before multiplying
RMul(a, b) ==
    LET g1 == GCD(Abs(a[1]), b[2])
        g2 == GCD(Abs(b[1]), a[2])
    IN  <<(a[1] \div g1) * (b[1] \div g2), (a[2] \div g2) * (b[2] \div g1)>>

\* a / b, b # 0
RDiv(a, b) == RMul(a, IF b[1] < 0 THEN <<-b[2], -b[1]>> ELSE <<b[2], b[1]>>)

RAdd(a, b) ==
    LET g == GCD(a[2], b[2])
    IN  Rat(a[1] * (b[2] \div g) + b[1] * (a[2] \div g), (a[2] \div g) * b[2])

RSub(a, b) == RAdd(a, RNeg(b))

RLeq(a, b) ==
    LET g == GCD(a[2], b[2])
    IN  a[1] * (b[2] \div g) <= b[1] * (a[2] \div g)

RLess(a, b) == RLeq(a, b) /\ a # b

\* conversion of a floating value to qint64: truncation toward zero
Trunc(a) == IF a[1] >= 0 THEN a[1] \div a[2] ELSE -((-a[1]) \div a[2])

(***************************************************************************)
(* BodyId: enum SolarObjects.  The enumeration, the orbital elements and   *)
(* the radii are declared outside solarmathcore.cpp; the numbering follows *)
(* the data model (Sun, Mercury .. Pluto, Moon, two rings, two cloud       *)
(* layers, the whole-system view), the values are representative.          *)
(***************************************************************************)
Sun == 0
Mercury == 1
Venus == 2
Earth == 3
Mars == 4
Jupiter == 5
Saturn == 6
Uranus == 7
Neptune == 8
Pluto == 9
Moon == 10
SaturnRing == 11
UranusRing == 12
EarthCloud == 13
VenusCloud == 14
SolarSystemView == 15

BodyIds == Sun .. SolarSystemView

\* the ids solarContainer.solarObject() has a math record for
MathBodies == Sun .. Moon

\* SolarObject::centerOfOrbit()
centerOfOrbit(object) == IF object = Moon THEN Earth ELSE Sun

\* SolarObject::period(): rotation period in days
period(object) ==
    LET hundredths == <<2538, 5865, 24302, 100, 103, 41, 44, 72, 67, 639, 2732>>
    IN  Rat(hundredths[object + 1], 100)

\* SolarObject::radius() and SolarParser::parseSolarObjectRadius()
parseSolarObjectRadius(object) ==
    LET radius == <<696, 2, 6, 6, 3, 70, 58, 25, 24, 1, 2>>
    IN  R(radius[object + 1])

\* SolarValues::saturnOuterRadius, SolarValues::uranusOuterRadius
saturnOuterRadius == 120
uranusOuterRadius == 40

\* SolarObject3D::tilt() of a visual body, set by the scene when it builds it
sceneTilt(object) == object + 20

\* CameraController::defaultZoomLimit(), defaultZoomSpeed()
defaultZoomLimit == 900
defaultZoomSpeed == 6

focusedMinimumScale == 20
ultraSpeedStep == 2
ultraSpeedMax == 64

(***************************************************************************)
(* QDateTime (UTC arithmetic) and the epoch conversion of SolarCore/utils. *)
(***************************************************************************)
MsPerDay == 86400000

IsLeap(y) == (y % 4 = 0 /\ y % 100 # 0) \/ y % 400 = 0

DaysInMonth(y, m) ==
    IF m = 2 THEN (IF IsLeap(y) THEN 29 ELSE 28)
    ELSE IF m \in {4, 6, 9, 11} THEN 30 ELSE 31

NextDay(date) ==
    LET y == date[1]
        m == date[2]
        d == date[3]
    IN  IF d < DaysInMonth(y, m) THEN <<y, m, d + 1>>
        ELSE IF m < 12 THEN <<y, m + 1, 1>>
        ELSE <<y + 1, 1, 1>>

PrevDay(date) ==
    LET y == date[1]
        m == date[2]
        d == date[3]
    IN  IF d > 1 THEN <<y, m, d - 1>>
        ELSE IF m > 1 THEN <<y, m - 1, DaysInMonth(y, m - 1)>>
        ELSE <<y - 1, 12, 31>>

RECURSIVE AddDays(_, _)
AddDays(date, n) ==
    IF n = 0 THEN date
    ELSE IF n > 0 THEN AddDays(NextDay(date), n - 1)
    ELSE AddDays(PrevDay(date), n + 1)

\* QDateTime::addMSecs
addMSecs(t, msecs) ==
    LET total == t.ms + msecs
    IN  [date |-> AddDays(t.date, total \div MsPerDay), ms |-> total % MsPerDay]

\* QTime::hour(), minute(), second()
hourOf(t) == t.ms \div 3600000
minuteOf(t) == (t.ms \div 60000) % 60
secondOf(t) == (t.ms \div 1000) % 60

\* Utils::calculateTimeScale: the day number of
\* http://www.stjarnhimlen.se/comp/ppcomp.html (integer divisions)
calculateTimeScale(y, m, d) ==
    367 * y - (7 * (y + (m + 9) \div 12)) \div 4 + (275 * m) \div 9 + d - 730530

\* Utils::calculateUT: the time of day as a fraction of a day
calculateUT(h, m, s) ==
    RDiv(RAdd(RAdd(R(h), Rat(m, 60)), Rat(s, 3600)), R(24))

\* the elapsed-days value of a calendar time (lines 77-78, 270-271)
timeD(date, h, m, s) ==
    RAdd(R(calculateTimeScale(date[1], date[2], date[3])), calculateUT(h, m, s))

(***************************************************************************)
(* Inputs.                                                                 *)
(***************************************************************************)
\* SolarValues::year / month / day: the start date is set outside this file
StartDates == {<<2000, 1, 1>>, <<2019, 12, 31>>}
SpeedValues == {R(-1), R(1), R(25000)}
DeltaTimeValues == {R(0), R(1)}
FocusIds == {SolarSystemView, Mercury, Earth}
\* planetScale and actualScale have no initializer: their first value is indeterminate
IndeterminateScales == {3, 50}
ScaleValues == {1, 20, 30}

(***************************************************************************)
(* Construction (Data::Data, lines 14-90) followed by the wiring of the    *)
(* camera and of the scene's container; the camera controller is optional. *)
(***************************************************************************)
\* SolarObject3D as the scene builds it, before the core has written to it
newVisual(object) ==
    [x |-> 0, y |-> 0, z |-> 0, roll |-> R(0), tilt |-> sceneTilt(object), r |-> R(1)]

\* a scene holding a visual body for each id of `ids`
sceneOf(ids) == [id \in ids |-> newVisual(id)]

InitData(dates, speeds, deltas, scenes, scales, bursts) ==
    /\ \E date \in dates :
          /\ solarTime = [date |-> date, ms |-> 0]
          /\ startD = timeD(date, 0, 0, 0)
          /\ oldTimeD = timeD(date, 0, 0, 0)
          /\ currentTimeD = timeD(date, 0, 0, 0)
    /\ deltaTime \in deltas
    /\ deltaTimeD = R(0)
    /\ daysPerFrame = R(0)
    /\ daysPerFrameScale \in speeds
    /\ \E n \in bursts :
          /\ burstCalls = n
          /\ ultraSpeed = ultraSpeedStep ^ n
    /\ planetScale \in scales
    /\ actualScale \in scales
    /\ focusedScaling = FALSE
    /\ saturnRingOuterRadius = RAdd(parseSolarObjectRadius(Saturn), R(saturnOuterRadius))
    /\ saturnRingInnerRadius = RAdd(parseSolarObjectRadius(Saturn), Rat(6630, 1000))
    /\ uranusRingOuterRadius = RAdd(parseSolarObjectRadius(Uranus), R(uranusOuterRadius))
    /\ uranusRingInnerRadius = RAdd(parseSolarObjectRadius(Uranus), R(2))
    /\ camera = [viewCenter |-> <<0, 0, 0>>]
    /\ cameraController = NULL
    /\ solarContainer = [b \in MathBodies |-> [x |-> 0, y |-> 0, z |-> 0, roll |-> R(0)]]
    /\ planets \in scenes
    /\ fault = "none"
    /\ lastOp = [op |-> "init", object |-> 0, flag |-> FALSE]
    /\ frames = 0
    /\ solves = 0
    /\ solveOrder = <<>>

Op(name, object, flag) == [op |-> name, object |-> object, flag |-> flag]

(***************************************************************************)
(* Time model.                                                             *)
(***************************************************************************)
setSolarSystemSpeed(speed) ==
    /\ fault = "none"
    /\ daysPerFrameScale' = speed
    /\ lastOp' = Op("setSolarSystemSpeed", 0, FALSE)
    /\ UNCHANGED <<solarTime, deltaTime, startD, oldTimeD, currentTimeD, deltaTimeD,
                   daysPerFrame, ultraSpeed, scaleVars, focusedScaling, ringVars,
                   camera, cameraController, solarContainer, planets, fault,
                   burstCalls, frames, solves, solveOrder>>

setDeltaTime(dt) ==
    /\ fault = "none"
    /\ deltaTime' = dt
    /\ lastOp' = Op("setDeltaTime", 0, FALSE)
    /\ UNCHANGED <<solarTime, startD, oldTimeD, currentTimeD, deltaTimeD,
                   daysPerFrame, daysPerFrameScale, ultraSpeed, scaleVars,
                   focusedScaling, ringVars, camera, cameraController,
                   solarContainer, planets, fault, burstCalls, frames, solves,
                   solveOrder>>

daysPerFrameFor(object) ==
    IF object = SolarSystemView THEN daysPerFrameScale
    ELSE IF object = Mercury \/ object = Venus
         THEN RDiv(RMul(daysPerFrameScale, period(object)), R(15000))
         ELSE RDiv(RMul(daysPerFrameScale, period(object)), R(100))

\* line 256: solarTime after the frame's milliseconds are added
advancedTime(object) ==
    addMSecs(solarTime,
             Trunc(RMul(RMul(RMul(deltaTime, R(1000)), daysPerFrameFor(object)),
                        R(ultraSpeed))))

\* lines 259-264: the calendar fields the elapsed-days value is derived from
clockFields(t) == [date |-> t.date, h |-> hourOf(t), m |-> minuteOf(t), s |-> secondOf(t)]

\* lines 262-264 left out: year / month / day keep their previous values
staleDateFields(t) ==
    [date |-> solarTime.date, h |-> hourOf(t), m |-> minuteOf(t), s |-> secondOf(t)]

\* advanceTime with solarTime set to t and the elapsed-days value derived from f
advanceWith(object, t, f) ==
    LET cur == timeD(f.date, f.h, f.m, f.s)
    IN  /\ fault = "none"
        /\ frames < MaxFrames
        /\ daysPerFrame' = daysPerFrameFor(object)
        /\ solarTime' = t
        /\ oldTimeD' = currentTimeD
        /\ currentTimeD' = cur
        /\ deltaTimeD' = RSub(cur, currentTimeD)
        /\ frames' = frames + 1
        /\ lastOp' = Op("advanceTime", object, FALSE)
        /\ UNCHANGED <<deltaTime, startD, daysPerFrameScale, ultraSpeed, scaleVars,
                       focusedScaling, ringVars, camera, cameraController,
                       solarContainer, planets, fault, burstCalls, solves,
                       solveOrder>>

advanceTimeStaleDate(object) ==
    advanceWith(object, advancedTime(object), staleDateFields(advancedTime(object)))

advanceTime(object) ==
    advanceWith(object, advancedTime(object), clockFields(advancedTime(object)))

\* the comparison of line 459 written with < instead of <=
changeExtraSpeedStrict ==
    /\ fault = "none"
    /\ burstCalls < MaxBurstCalls
    /\ IF ultraSpeed * ultraSpeedStep < ultraSpeedMax
       THEN ultraSpeed' = ultraSpeed * ultraSpeedStep
       ELSE ultraSpeed' = 1
    /\ burstCalls' = burstCalls + 1
    /\ lastOp' = Op("changeExtraSpeed", 0, FALSE)
    /\ UNCHANGED <<clockVars, startD, scaleVars, focusedScaling, ringVars, camera,
                   cameraController, solarContainer, planets, fault, frames,
                   solves, solveOrder>>

changeExtraSpeed ==
    /\ fault = "none"
    /\ burstCalls < MaxBurstCalls
    /\ IF ultraSpeed * ultraSpeedStep <= ultraSpeedMax
       THEN ultraSpeed' = ultraSpeed * ultraSpeedStep
       ELSE ultraSpeed' = 1
    /\ burstCalls' = burstCalls + 1
    /\ lastOp' = Op("changeExtraSpeed", 0, FALSE)
    /\ UNCHANGED <<clockVars, startD, scaleVars, focusedScaling, ringVars, camera,
                   cameraController, solarContainer, planets, fault, frames,
                   solves, solveOrder>>

resetExtraSpeed ==
    /\ fault = "none"
    /\ ultraSpeed' = 1
    /\ burstCalls' = 0
    /\ lastOp' = Op("resetExtraSpeed", 0, FALSE)
    /\ UNCHANGED <<clockVars, startD, scaleVars, focusedScaling, ringVars, camera,
                   cameraController, solarContainer, planets, fault, frames,
                   solves, solveOrder>>

AllVisualIds == BodyIds \ {SolarSystemView}

\* The clock under every speed, frame delta and focus; the burst multiplier is
\* the one an earlier run of changeExtraSpeed calls has left.
InitTime == InitData(StartDates, {R(0)}, {R(0)}, {sceneOf(AllVisualIds)}, {3}, 0 .. 6)

NextTime ==
    \/ \E speed \in SpeedValues : setSolarSystemSpeed(speed)
    \/ \E dt \in DeltaTimeValues : setDeltaTime(dt)
    \/ \E object \in FocusIds : advanceTime(object)

SpecTime == InitTime /\ [][NextTime]_vars

\* The burst multiplier from construction on, with the clock it drives.
InitBurst == InitData(StartDates, {R(0)}, {R(0)}, {sceneOf(AllVisualIds)}, {3}, {0})

NextBurst ==
    \/ changeExtraSpeed
    \/ resetExtraSpeed
    \/ setSolarSystemSpeed(R(1))
    \/ \E dt \in DeltaTimeValues : setDeltaTime(dt)
    \/ advanceTime(SolarSystemView)

SpecBurst == InitBurst /\ [][NextBurst]_vars

(***************************************************************************)
(* Scale and zoom calculator.                                              *)
(***************************************************************************)
\* lines 279-285 with the comparison of line 282 written with < instead of <=
scaleStateStrict(scale, focused) ==
    LET actual == IF ~focused THEN scale ELSE actualScale
    IN  [actualScale |-> actual,
         planetScale |-> IF scale < focusedMinimumScale /\ (focusedScaling \/ focused)
                         THEN focusedMinimumScale
                         ELSE actual]

\* the values setSolarObjectsScale leaves in actualScale and planetScale
scaleState(scale, focused) ==
    LET actual == IF ~focused THEN scale ELSE actualScale
    IN  [actualScale |-> actual,
         planetScale |-> IF scale <= focusedMinimumScale /\ (focusedScaling \/ focused)
                         THEN focusedMinimumScale
                         ELSE actual]

setSolarObjectsScale(scale, focused) ==
    /\ fault = "none"
    /\ actualScale' = scaleState(scale, focused).actualScale
    /\ planetScale' = scaleState(scale, focused).planetScale
    /\ lastOp' = Op("setSolarObjectsScale", scale, focused)
    /\ UNCHANGED <<clockVars, startD, ultraSpeed, focusedScaling, ringVars, camera,
                   cameraController, solarContainer, planets, burstCalls, fault,
                   frames, solves, solveOrder>>

\* the radius changeSolarSystemScale gives the visual body of `object`
scaledRadius(object, scaling) ==
    IF object = Sun
    THEN RDiv(RMul(parseSolarObjectRadius(object), R(scaling)), R(80))
    ELSE RMul(parseSolarObjectRadius(object), R(scaling))

\* the entries of the planets table whose visual body is a null pointer
nullEntries(pl) == {id \in DOMAIN pl : pl[id] = NULL}

Min(S) == CHOOSE m \in S : \A n \in S : m <= n

changeSolarSystemScale(scale, focused) ==
    LET scaling == scaleState(scale, focused).planetScale
        \* the loop runs in key order and stops at the first null visual body
        bad == nullEntries(planets) \cap MathBodies
        reached(id) == bad = {} \/ id < Min(bad)
    IN  /\ fault = "none"
        /\ \A rr \in {saturnRingOuterRadius, uranusRingOuterRadius} :
              RLeq(rr, R(MaxRingRadius))
        /\ actualScale' = scaleState(scale, focused).actualScale
        /\ planetScale' = scaling
        /\ planets' = [id \in DOMAIN planets |->
                         IF id \in MathBodies /\ reached(id)
                         THEN [planets[id] EXCEPT !.r = scaledRadius(id, scaling)]
                         ELSE planets[id]]
        /\ IF SaturnRing \in DOMAIN planets /\ reached(SaturnRing)
           THEN /\ saturnRingOuterRadius' = RMul(saturnRingOuterRadius, R(scaling))
                /\ saturnRingInnerRadius' = RMul(saturnRingInnerRadius, R(scaling))
           ELSE UNCHANGED <<saturnRingOuterRadius, saturnRingInnerRadius>>
        /\ IF UranusRing \in DOMAIN planets /\ reached(UranusRing)
           THEN /\ uranusRingInnerRadius' = RMul(uranusRingInnerRadius, R(scaling))
                /\ uranusRingOuterRadius' = RMul(uranusRingOuterRadius, R(scaling))
           ELSE UNCHANGED <<uranusRingInnerRadius, uranusRingOuterRadius>>
        /\ fault' = IF bad = {} THEN "none" ELSE "changeSolarSystemScale"
        /\ lastOp' = Op("changeSolarSystemScale", scale, focused)
        /\ UNCHANGED <<clockVars, startD, ultraSpeed, focusedScaling, camera,
                       cameraController, solarContainer, burstCalls, frames, solves,
                       solveOrder>>

setCameraController ==
    /\ fault = "none"
    /\ cameraController = NULL
    /\ cameraController' = [zoomLimit |-> R(defaultZoomLimit),
                            zoomSpeed |-> R(defaultZoomSpeed)]
    /\ lastOp' = Op("setCameraController", 0, FALSE)
    /\ UNCHANGED <<clockVars, startD, ultraSpeed, scaleVars, focusedScaling, ringVars,
                   camera, solarContainer, planets, burstCalls, fault, frames,
                   solves, solveOrder>>

\* the Jupiter correction of line 547 applied as a factor instead of a divisor
calculateZoomLimitJupiterTimes(object, limit) ==
    IF object = Sun THEN R(defaultZoomLimit)
    ELSE IF object = Mercury THEN RMul(limit, R(2))
    ELSE IF object = Jupiter THEN RMul(limit, Rat(3, 2))
    ELSE IF object = Pluto THEN RMul(limit, Rat(3, 2))
    ELSE limit

\* calculateZoomLimit(object, limit); the Sun case reads the camera controller
calculateZoomLimit(object, limit) ==
    IF object = Sun THEN R(defaultZoomLimit)
    ELSE IF object = Mercury THEN RMul(limit, R(2))
    ELSE IF object = Jupiter THEN RDiv(limit, Rat(3, 2))
    ELSE IF object = Pluto THEN RMul(limit, Rat(3, 2))
    ELSE limit

updateSolarViewZoomLimit(object) ==
    /\ fault = "none"
    /\ IF object = SolarSystemView
       THEN /\ cameraController' =
                  IF cameraController = NULL THEN NULL
                  ELSE [zoomLimit |-> R(defaultZoomLimit),
                        zoomSpeed |-> R(defaultZoomSpeed)]
            /\ fault' = "none"
       ELSE LET zoomLimit == RMul(RMul(R(planetScale), parseSolarObjectRadius(object)), R(4))
            IN  IF cameraController = NULL
                THEN /\ cameraController' = NULL
                     \* line 539 dereferences the controller without a check
                     /\ fault' = IF object = Sun THEN "calculateZoomLimit" ELSE "none"
                ELSE /\ cameraController' =
                           [zoomLimit |-> calculateZoomLimit(object, zoomLimit),
                            zoomSpeed |-> RDiv(R(defaultZoomSpeed), R(3))]
                     /\ fault' = "none"
    /\ lastOp' = Op("updateSolarViewZoomLimit", object, FALSE)
    /\ UNCHANGED <<clockVars, startD, ultraSpeed, scaleVars, focusedScaling, ringVars,
                   camera, solarContainer, planets, burstCalls, frames, solves,
                   solveOrder>>

(***************************************************************************)
(* Hierarchy propagator.                                                   *)
(***************************************************************************)
\* one (dependent, parent) pair of setupPlanetRings / atmosphereCalculations:
\* the table after it, or the table as it was when a null pointer is used
follow(pl, child, parent, rollDivisor, radius) ==
    IF child \in DOMAIN pl /\ parent \in DOMAIN pl
    THEN IF pl[parent] = NULL \/ pl[child] = NULL
         THEN [pl |-> pl, ok |-> FALSE]
         ELSE [pl |-> [pl EXCEPT ![child] =
                          [x |-> pl[parent].x, y |-> pl[parent].y, z |-> pl[parent].z,
                           tilt |-> pl[parent].tilt,
                           roll |-> RDiv(pl[parent].roll, rollDivisor),
                           r |-> radius]],
               ok |-> TRUE]
    ELSE [pl |-> pl, ok |-> TRUE]

\* the display radius setupPlanetRings derives from a ring's inner and outer radius
ringRadius(inner, outer) == RDiv(RAdd(inner, outer), Rat(175, 100))

\* the cloud layer's radius: the parent's radius times earthCloudRModifier
cloudRadius(pl) ==
    IF Earth \in DOMAIN pl /\ pl[Earth] # NULL
    THEN RMul(pl[Earth].r, Rat(1010, 1000))
    ELSE R(0)

setupPlanetRings(pl) ==
    LET sat == follow(pl, SaturnRing, Saturn, R(10),
                      ringRadius(saturnRingInnerRadius, saturnRingOuterRadius))
        ura == follow(sat.pl, UranusRing, Uranus, R(10),
                      ringRadius(uranusRingInnerRadius, uranusRingOuterRadius))
    IN  IF sat.ok THEN ura ELSE sat

atmosphereCalculations(pl) ==
    follow(pl, EarthCloud, Earth, Rat(12, 10), cloudRadius(pl))

additionalCalculation ==
    LET rings == setupPlanetRings(planets)
        clouds == atmosphereCalculations(rings.pl)
    IN  /\ fault = "none"
        /\ planets' = IF rings.ok THEN clouds.pl ELSE rings.pl
        /\ fault' = IF ~rings.ok THEN "setupPlanetRings"
                    ELSE IF ~clouds.ok THEN "atmosphereCalculations"
                    ELSE "none"
        /\ lastOp' = Op("additionalCalculation", 0, FALSE)
        /\ UNCHANGED <<clockVars, startD, ultraSpeed, scaleVars, focusedScaling,
                       ringVars, camera, cameraController, solarContainer, burstCalls,
                       frames, solves, solveOrder>>

ZoomIds == MathBodies \cup {SolarSystemView}

\* partial scenes: the whole scene, a scene without rings, a scene with one ring
ScaleScenes ==
    {sceneOf(AllVisualIds),
     sceneOf(AllVisualIds \ {SaturnRing, UranusRing}),
     sceneOf({Sun, Earth, Saturn, SaturnRing})}

InitScale == InitData(StartDates, {R(0)}, {R(0)}, ScaleScenes, IndeterminateScales, {0})

NextScale ==
    \/ \E scale \in ScaleValues, focused \in BOOLEAN : setSolarObjectsScale(scale, focused)
    \/ \E scale \in ScaleValues, focused \in BOOLEAN : changeSolarSystemScale(scale, focused)
    \/ additionalCalculation

SpecScale == InitScale /\ [][NextScale]_vars

\* The zoom limits pushed to the camera controller under every effective scale.
InitZoom == InitData(StartDates, {R(0)}, {R(0)}, {sceneOf(AllVisualIds)}, IndeterminateScales, {0})

NextZoom ==
    \/ \E scale \in ScaleValues, focused \in BOOLEAN : setSolarObjectsScale(scale, focused)
    \/ setCameraController
    \/ \E object \in ZoomIds : updateSolarViewZoomLimit(object)

SpecZoom == InitZoom /\ [][NextZoom]_vars

(***************************************************************************)
(* Orbit solver.                                                           *)
(***************************************************************************)
\* lines 198-219 and the auScale factor of lines 225-227: the offset of `object`
\* from its center of orbit at elapsed-days t.  The Kepler evaluation is kept as
\* a fixed function of (object, t) with integer values.
heliocentric(object, t) ==
    LET k == Trunc(RMul(t, R(24))) % 97
    IN  <<(((object + 2) * k) % 41) - 20,
          (((object + 3) * k) % 17) - 8,
          (((object + 5) * k) % 37) - 18>>

\* PlanetArray::operator[]: looking up an id that has no entry inserts a null one
subscript(pl, id) == IF id \in DOMAIN pl THEN pl ELSE pl @@ (id :> NULL)

\* the math record of `object` after lines 195-230
solvedRecord(cont, object) ==
    LET off == heliocentric(object, currentTimeD)
        center == cont[centerOfOrbit(object)]
        roll == RAdd(cont[object].roll,
                     RMul(RDiv(deltaTimeD, period(object)), R(360)))
    IN  IF object # Sun
        THEN [x |-> center.x + off[1], y |-> center.y + off[2],
              z |-> center.z + off[3], roll |-> roll]
        ELSE [cont[object] EXCEPT !.roll = roll]

\* lines 233-242: the visual body, when the table has one, takes the record
writeVisual(pl, object, rec) ==
    LET pl1 == subscript(pl, object)
    IN  IF pl1[object] # NULL
        THEN [pl1 EXCEPT ![object] =
                 [@ EXCEPT !.x = rec.x, !.y = rec.y, !.z = rec.z, !.roll = rec.roll]]
        ELSE pl1

\* a solver that looks for the visual body first and does nothing without one
solarObjectPositionOnVisualOnly(st, object) ==
    IF object \in MathBodies /\ object \in DOMAIN st.pl /\ st.pl[object] # NULL
    THEN LET rec == solvedRecord(st.cont, object)
         IN  [cont |-> [st.cont EXCEPT ![object] = rec],
              pl |-> writeVisual(st.pl, object, rec)]
    ELSE st

\* solarObjectPosition on the pair st = [cont |-> math records, pl |-> planets table]
solarObjectPositionOn(st, object) ==
    IF object \in MathBodies
    THEN LET rec == solvedRecord(st.cont, object)
         IN  [cont |-> [st.cont EXCEPT ![object] = rec],
              pl |-> writeVisual(st.pl, object, rec)]
    ELSE st

solarObjectPosition(object) ==
    LET st == solarObjectPositionOn([cont |-> solarContainer, pl |-> planets], object)
    IN  /\ fault = "none"
        /\ solves < MaxSolves
        /\ solarContainer' = st.cont
        /\ planets' = st.pl
        /\ solves' = solves + 1
        /\ lastOp' = Op("solarObjectPosition", object, FALSE)
        /\ UNCHANGED <<clockVars, startD, ultraSpeed, scaleVars, focusedScaling,
                       ringVars, camera, cameraController, burstCalls, fault, frames,
                       solveOrder>>

\* the loop of lines 480-481 from index i on; `order` collects the ids it solves
RECURSIVE solveFrom(_, _, _, _)
solveFrom(st, order, i, updateCount) ==
    IF i < updateCount
    THEN solveFrom(solarObjectPositionOn(st, i), Append(order, i), i + 1, updateCount)
    ELSE [st |-> st, order |-> order]

\* the same loop run from the last index down
RECURSIVE solveDownFrom(_, _, _, _)
solveDownFrom(st, order, i, updateCount) ==
    IF i < updateCount
    THEN solveDownFrom(solarObjectPositionOn(st, updateCount - 1 - i),
                       Append(order, updateCount - 1 - i), i + 1, updateCount)
    ELSE [st |-> st, order |-> order]

\* calculateAllSolarObjectsPosiitons with `done` the result of its loop
solveAllWith(updateCount, done) ==
    /\ fault = "none"
    /\ solves < MaxSolves
    /\ solarContainer' = done.st.cont
    /\ planets' = done.st.pl
    /\ solveOrder' = done.order
    /\ solves' = solves + 1
    /\ lastOp' = Op("solveAll", updateCount, FALSE)
    /\ UNCHANGED <<clockVars, startD, ultraSpeed, scaleVars, focusedScaling,
                   ringVars, camera, cameraController, burstCalls, fault, frames>>

calculateAllSolarObjectsPosiitonsDescending(updateCount) ==
    solveAllWith(updateCount,
                 solveDownFrom([cont |-> solarContainer, pl |-> planets], <<>>, 0,
                               updateCount))

\* updateCount is container->planetsNumber()
calculateAllSolarObjectsPosiitons(updateCount) ==
    solveAllWith(updateCount,
                 solveFrom([cont |-> solarContainer, pl |-> planets], <<>>, 0,
                           updateCount))

(***************************************************************************)
(* View operations.                                                        *)
(***************************************************************************)
updateSolarView(object) ==
    LET id == IF object # SolarSystemView THEN object ELSE Sun
        pl == subscript(planets, id)
    IN  /\ fault = "none"
        /\ planets' = pl
        /\ camera' = IF pl[id] # NULL
                     THEN [camera EXCEPT !.viewCenter = <<pl[id].x, pl[id].y, pl[id].z>>]
                     ELSE camera
        /\ lastOp' = Op("updateSolarView", object, FALSE)
        /\ UNCHANGED <<clockVars, startD, ultraSpeed, scaleVars, focusedScaling,
                       ringVars, cameraController, solarContainer, burstCalls, fault,
                       frames, solves, solveOrder>>

objectPosition(object) ==
    LET pl == IF object # SolarSystemView THEN subscript(planets, object) ELSE planets
    IN  /\ fault = "none"
        /\ planets' = pl
        \* line 414 dereferences the looked-up pointer without a check
        /\ fault' = IF object # SolarSystemView /\ pl[object] = NULL
                    THEN "objectPosition" ELSE "none"
        /\ lastOp' = Op("objectPosition", object, FALSE)
        /\ UNCHANGED <<clockVars, startD, ultraSpeed, scaleVars, focusedScaling,
                       ringVars, camera, cameraController, solarContainer, burstCalls,
                       frames, solves, solveOrder>>

viewPositionOfObject(object) ==
    LET pl == subscript(planets, object)
    IN  /\ fault = "none"
        /\ planets' = pl
        \* calculateZoomLimit(Sun, ..) reads the camera controller (line 539)
        /\ fault' = IF pl[object] # NULL /\ object = Sun /\ cameraController = NULL
                    THEN "calculateZoomLimit" ELSE "none"
        /\ lastOp' = Op("viewPositionOfObject", object, FALSE)
        /\ UNCHANGED <<clockVars, startD, ultraSpeed, scaleVars, focusedScaling,
                       ringVars, camera, cameraController, solarContainer, burstCalls,
                       frames, solves, solveOrder>>

\* the scene (not the core) builds the visual body of `id` during setup
sceneAdd(id) ==
    /\ fault = "none"
    /\ IF id \in DOMAIN planets THEN planets[id] = NULL ELSE TRUE
    /\ planets' = [k \in DOMAIN planets \cup {id} |->
                     IF k = id THEN newVisual(id) ELSE planets[k]]
    /\ lastOp' = Op("sceneAdd", id, FALSE)
    /\ UNCHANGED <<clockVars, startD, ultraSpeed, scaleVars, focusedScaling, ringVars,
                   camera, cameraController, solarContainer, burstCalls, fault,
                   frames, solves, solveOrder>>

(***************************************************************************)
(* The frame loop on whole and partial scenes.                             *)
(***************************************************************************)
CountValues == {Earth + 1, SolarSystemView + 1}
SolveIds == {Saturn, SaturnRing}
SceneAddIds == {Saturn}

FrameScenes ==
    {sceneOf(AllVisualIds),
     sceneOf({Sun, Earth, Moon, EarthCloud, SaturnRing})}

\* The frame loop runs with the speed and the frame delta already set.
InitFrame ==
    InitData({<<2019, 12, 31>>}, {R(25000)}, {R(1)}, FrameScenes, {3}, {0})

NextFrame ==
    \/ (frames < MaxTicks /\ advanceTime(SolarSystemView))
    \/ \E updateCount \in CountValues : calculateAllSolarObjectsPosiitons(updateCount)
    \/ \E object \in SolveIds : solarObjectPosition(object)
    \/ additionalCalculation
    \/ changeSolarSystemScale(30, FALSE)
    \/ updateSolarView(Saturn)
    \/ objectPosition(Saturn)
    \/ viewPositionOfObject(Saturn)
    \/ \E id \in SceneAddIds : sceneAdd(id)

SpecFrame == InitFrame /\ [][NextFrame]_vars

(***************************************************************************)
(* Claims on the time model.                                               *)
(***************************************************************************)
\* C1: from a multiplier of 1, n consecutive changeExtraSpeed calls leave
\* 2, 4, 8, 16, 32, 64 for n = 1 .. 6 and 1 again for n = 7: the multiplier
\* doubles while the doubled value does not exceed the ceiling and wraps to 1
\* on the call where it would.
C1_BurstCycle ==
    ultraSpeed = <<1, 2, 4, 8, 16, 32, 64>>[(burstCalls % 7) + 1]

\* C1 witness: the seventh call in a row has wrapped the multiplier from 64 to 1
C1_Witness ==
    /\ burstCalls = 7
    /\ ultraSpeed = 1
    /\ lastOp.op = "changeExtraSpeed"

ScaleOps == {"setSolarObjectsScale", "changeSolarSystemScale"}

\* C2: after a setScale call whose focused argument is true, or while the
\* focused-scaling flag is set, the effective scale (planetScale) is at least
\* the focused floor, whatever scale earlier unfocused calls have stored.
C2_FocusedFloor ==
    (/\ lastOp.op \in ScaleOps
     /\ (lastOp.flag \/ focusedScaling)
     /\ actualScale \in ScaleValues)
    => planetScale >= focusedMinimumScale

\* C3: a second consecutive applyScale call with the same unfocused scale, in a
\* scene holding a ring, leaves the ring inner / outer radii, and the ring
\* display radius the propagator derives from them, as the first call left them.
C3_RingIdempotent ==
    [][(/\ lastOp.op = "changeSolarSystemScale"
        /\ ~lastOp.flag
        /\ lastOp' = lastOp
        /\ (SaturnRing \in DOMAIN planets \/ UranusRing \in DOMAIN planets))
       => (/\ ringVars' = ringVars
           /\ ringRadius(saturnRingInnerRadius', saturnRingOuterRadius')
                = ringRadius(saturnRingInnerRadius, saturnRingOuterRadius)
           /\ ringRadius(uranusRingInnerRadius', uranusRingOuterRadius')
                = ringRadius(uranusRingInnerRadius, uranusRingOuterRadius))]_vars

\* C4: setScale(scale, focused) stores scale as the persistent scale only when
\* focused is false, and leaves the effective scale equal to the persistent
\* scale unless (focused-scaling flag or focused) and scale <= floor, where it
\* is the floor.
C4_SetScale ==
    [][lastOp'.op \in ScaleOps
       => (/\ actualScale' = IF lastOp'.flag THEN actualScale ELSE lastOp'.object
           /\ planetScale' = IF (focusedScaling \/ lastOp'.flag)
                                /\ lastOp'.object <= focusedMinimumScale
                             THEN focusedMinimumScale
                             ELSE actualScale')]_vars

\* C4 witness: setScale(30, false) then setScale(20, true): the effective scale
\* is the floor and the persistent scale is still 30
C4_Witness ==
    /\ lastOp = Op("setSolarObjectsScale", 20, TRUE)
    /\ planetScale = focusedMinimumScale
    /\ actualScale = 30

\* C5: with a camera controller wired, updateSolarViewZoomLimit(id) pushes, from
\* base = effective scale * radius * 4: base * 2 for Mercury, base / 1.5 for
\* Jupiter, base * 1.5 for Pluto, the default zoom limit for the Sun, base for
\* every other body, with zoom speed default / 3; and the default zoom limit
\* and zoom speed for the whole-system view.
C5_ZoomLimit ==
    (lastOp.op = "updateSolarViewZoomLimit" /\ cameraController # NULL /\ fault = "none")
    => LET id == lastOp.object
           base == RMul(RMul(R(planetScale), parseSolarObjectRadius(id)), R(4))
       IN  /\ cameraController.zoomLimit =
                 CASE id = SolarSystemView -> R(defaultZoomLimit)
                   [] id = Sun -> R(defaultZoomLimit)
                   [] id = Mercury -> RMul(base, R(2))
                   [] id = Jupiter -> RDiv(base, Rat(15, 10))
                   [] id = Pluto -> RMul(base, Rat(15, 10))
                   [] OTHER -> base
           /\ cameraController.zoomSpeed =
                 IF id = SolarSystemView THEN R(defaultZoomSpeed)
                 ELSE RDiv(R(defaultZoomSpeed), R(3))

\* C5 witness: Jupiter at effective scale 1 has the zoom limit (R * 4) / 1.5
C5_Witness ==
    /\ lastOp = Op("updateSolarViewZoomLimit", Jupiter, FALSE)
    /\ planetScale = 1
    /\ cameraController # NULL
    /\ cameraController.zoomLimit = Rat(parseSolarObjectRadius(Jupiter)[1] * 4 * 2, 3)

(***************************************************************************)
(* Claims on the orbit solver, the planets table and the propagator.       *)
(***************************************************************************)
\* whether the table holds a visual body (a non-null entry) for id
hasVisual(pl, id) == IF id \in DOMAIN pl THEN pl[id] # NULL ELSE FALSE

position(rec) == <<rec.x, rec.y, rec.z>>

\* p + off, componentwise
offsetFrom(p, off) == <<p[1] + off[1], p[2] + off[2], p[3] + off[3]>>

\* C6: no operation of the core adds an entry to, or removes one from, the
\* scene's planets table: the set of ids with an entry changes only when the
\* scene itself builds a visual body.
C6_TableEntriesFixed ==
    [][lastOp'.op # "sceneAdd" => DOMAIN planets' = DOMAIN planets]_vars

\* C7: solveAll(count) hands the ids 0 .. count-1 to the solver in increasing
\* order, and afterwards every solved body other than the Sun sits at its
\* center of orbit's position plus its own offset at the current elapsed-days,
\* where the center (also when it is a planet) sits at its position of this
\* same frame.
C7_CenterBeforeDependent ==
    lastOp.op = "solveAll"
    => /\ solveOrder = [i \in 1 .. lastOp.object |-> i - 1]
       /\ \A b \in MathBodies \ {Sun} :
             b < lastOp.object
             => LET c == centerOfOrbit(b)
                IN  /\ position(solarContainer[b])
                         = offsetFrom(position(solarContainer[c]),
                                      heliocentric(b, currentTimeD))
                    /\ c # Sun
                       => position(solarContainer[c])
                            = offsetFrom(position(solarContainer[centerOfOrbit(c)]),
                                         heliocentric(c, currentTimeD))

\* C7 witness: a second solveAll over every id, one frame after the first, has
\* moved the Earth and placed the Moon relative to the Earth's new position
C7_Witness ==
    /\ lastOp = Op("solveAll", SolarSystemView + 1, FALSE)
    /\ frames = 1
    /\ solves = 2
    /\ position(solarContainer[Earth]) # heliocentric(Earth, oldTimeD)
    /\ position(solarContainer[Moon])
         = offsetFrom(position(solarContainer[Earth]), heliocentric(Moon, currentTimeD))

\* C9: solarObjectPosition(id) for an id without a visual body changes nothing:
\* neither a math record nor the planets table.
C9_NoOpWithoutVisual ==
    [][(/\ lastOp'.op = "solarObjectPosition"
        /\ solves' # solves
        /\ ~hasVisual(planets, lastOp'.object))
       => (solarContainer' = solarContainer /\ planets' = planets)]_vars

\* C9 as amended: solarObjectPosition(id) for an id that has a math record but
\* no visual body changes no entry the table already holds and no clock, scale,
\* ring or camera state; it advances the math record of id (position at the
\* current elapsed-days, roll by deltaDays / period * 360) and leaves every
\* other math record alone.
C9_MathAdvancesVisualsUntouched ==
    [][(/\ lastOp'.op = "solarObjectPosition"
        /\ solves' # solves
        /\ lastOp'.object \in MathBodies
        /\ ~hasVisual(planets, lastOp'.object))
       => LET id == lastOp'.object
          IN  /\ \A k \in DOMAIN planets : planets'[k] = planets[k]
              /\ DOMAIN planets' = DOMAIN planets \cup {id}
              /\ planets'[id] = NULL
              /\ UNCHANGED <<clockVars, scaleVars, ringVars, camera, cameraController>>
              /\ solarContainer'[id].roll
                   = RAdd(solarContainer[id].roll,
                          RMul(RDiv(deltaTimeD, period(id)), R(360)))
              /\ position(solarContainer'[id])
                   = offsetFrom(position(solarContainer[centerOfOrbit(id)]),
                                heliocentric(id, currentTimeD))
              /\ \A b \in MathBodies \ {id} : solarContainer'[b] = solarContainer[b]]_vars

\* C9 witness: Saturn, missing from the scene, has been solved twice after the
\* clock advanced: its math record has rolled and the table holds a null entry
C9_Witness ==
    /\ lastOp = Op("solarObjectPosition", Saturn, FALSE)
    /\ solves = 2
    /\ hasVisual(planets, Saturn) = FALSE
    /\ Saturn \in DOMAIN planets
    /\ RLess(R(0), solarContainer[Saturn].roll)

\* the (dependent, parent, roll divisor) pairs of the propagator
Pairs ==
    {<<SaturnRing, Saturn, R(10)>>, <<UranusRing, Uranus, R(10)>>,
     <<EarthCloud, Earth, Rat(12, 10)>>}

\* C10: additionalCalculation never uses a null visual body; for a pair with a
\* member that has no visual body it writes nothing, and for a pair with both
\* it copies the parent's x / y / z and tilt and sets the roll to the parent's
\* roll / 10 (rings) or / 1.2 (cloud layer).
C10_PropagatorToleratesPartialScene ==
    [][lastOp'.op = "additionalCalculation"
       => /\ fault' = "none"
          /\ \A pair \in Pairs :
                LET child == pair[1]
                    parent == pair[2]
                IN  IF hasVisual(planets, child) /\ hasVisual(planets, parent)
                    THEN /\ position(planets'[child]) = position(planets[parent])
                         /\ planets'[child].tilt = planets[parent].tilt
                         /\ planets'[child].roll = RDiv(planets[parent].roll, pair[3])
                    ELSE child \in DOMAIN planets
                         => planets'[child] = planets[child]]_vars

====
